---------------------------- MODULE Spec2Model ----------------------------
(***************************************************************************)
(* A model of the arc kernel's page-granular heap (mm/heap.c) and of its   *)
(* interrupt routing table and dispatcher (intr/route.c).                  *)
(*                                                                         *)
(* Addresses are byte addresses.  The heap's virtual range is              *)
(* [heap_start, heap_end); the physical frame allocator (pmm) and the      *)
(* virtual mapper (vmm) are the environment: pmm is a pool of frame        *)
(* frames, vmm a page table over the heap's pages, and either may refuse   *)
(* a request.  Frames are interchangeable: a frame in use is named by the  *)
(* page it is mapped at.                                                   *)
(***************************************************************************)
EXTENDS Integers, Sequences, FiniteSets, TLC

VARIABLES
  nodes,    \* header page address -> heap_node_t stored there (NoNode: none)
  vmap,     \* the page table: page address -> whether a frame is mapped there
  pool,     \* the number of frames pmm holds free
  owned,    \* the pointers handed out by heap_alloc/heap_reserve, not yet freed
  freed,    \* the calls of pmm_free during the last heap operation, in order:
            \* the page each frame was mapped at, 0 for a null frame
  status,   \* "ok", or how the kernel stopped: "fault", "wild", "hang"
  refusals, \* how many calls met a refusal of pmm or vmm while frames were left
  last,     \* the last heap operation: its arguments, environment and result
  phase,    \* the shape of the calls so far: "alloc" (only allocations, each
            \* of which returned a pointer), "free" (such allocations, then
            \* only frees), "mixed" (anything else)
  intr_handlers, \* vector -> the head of its handler chain (a node, 0 = none)
  hnodes,   \* the intr_handler_node_t objects: node -> its handler and next
  trace,    \* the calls the last routing or dispatch operation made, in order
  istatus,  \* "ok", or "panic" once intr_dispatch has panicked
  ilast,    \* the last routing or dispatch operation and its result
  regs,     \* vector -> the nodes of the registrations on it that have not been
            \* removed, in the order in which they were registered
  pc,       \* CPU -> where it is in the routing call it runs ("idle": none)
  loc,      \* CPU -> the arguments and local variables of that call
  rw,       \* intr_route_lock: the number of readers, the writer (0: none)
  cstatus,  \* "ok", "panic", or "uaf" once a freed node has been read
  heap_lock, \* the spinlock of the heap: the CPU that holds it (0: unlocked)
  stack     \* CPU -> the calls it is in, the interrupted and calling ones
            \* first: where each of them is

heapvars == <<nodes, vmap, pool, owned, freed, status, refusals, last, phase>>

intrvars == <<intr_handlers, hnodes, trace, istatus, ilast, regs>>

\* the CPUs that call into the routing table in parallel
cpuvars == <<pc, loc, rw, cstatus>>

\* the locks as the CPUs nest them
lockvars == <<heap_lock, stack>>

vars == <<nodes, vmap, pool, owned, freed, status, refusals, last, phase,
          intr_handlers, hnodes, trace, istatus, ilast, regs,
          pc, loc, rw, cstatus, heap_lock, stack>>

----------------------------------------------------------------------------
(* Constants of the program and bounds of the model *)

FRAME_SIZE == 4096

HEAP_NODE_FREE == 0

HEAP_NODE_RESERVED == 1

HEAP_NODE_ALLOCATED == 2

\* PAGE_ALIGN_2M(&_end): where the kernel image ends and the heap starts
heap_start == 2097152

\* the number of pages of the heap's virtual range (header pages included)
HeapPages == 5

\* VM_STACK_OFFSET, the end of the heap (exclusive)
heap_end == heap_start + HeapPages * FRAME_SIZE

\* the number of physical frames pmm manages
NFrames == 5

\* the largest request, in pages
MaxReqPages == 2

\* how many calls the environment disturbs by refusing a frame or a mapping
\* although frames are left
MaxRefusals == 1

Pages == {heap_start + i * FRAME_SIZE : i \in 0..(HeapPages - 1)}

\* the page below the heap: the last page of the kernel image or its padding
BelowHeap == heap_start - FRAME_SIZE

NodeStates == {HEAP_NODE_FREE, HEAP_NODE_RESERVED, HEAP_NODE_ALLOCATED}

NoNode == [next |-> 0, prev |-> 0, state |-> -1, start |-> 0, end |-> 0]

ZeroRec == [next |-> 0, prev |-> 0, state |-> 0, start |-> 0, end |-> 0]

\* the request sizes the callers use, in bytes
ReqSizes == {0, 1, MaxReqPages * FRAME_SIZE}

\* What a page that holds no heap header can hold when it is read as one:
\* the page belongs to the heap's client (or to the kernel image), so its
\* bytes are arbitrary.  A zero page, a page whose words point into the heap,
\* and a page that looks like an ALLOCATED header.
Garbage ==
  {ZeroRec}
    \cup {[ZeroRec EXCEPT !.next = p] : p \in Pages}
    \cup {[ZeroRec EXCEPT !.prev = p, !.end = e] : p \in Pages, e \in {0, heap_end}}
    \cup {[ZeroRec EXCEPT !.state = HEAP_NODE_ALLOCATED, !.start = p,
                          !.end = p + FRAME_SIZE] : p \in Pages}

PAGE_ALIGN(size) == ((size + FRAME_SIZE - 1) \div FRAME_SIZE) * FRAME_SIZE

----------------------------------------------------------------------------
(* The machine state a heap operation works on, as one record:             *)
(*   nodes, vmap, pool, freed, status as the variables;                    *)
(*   sa, sh: the address and the contents of the one page read as a header *)
(*           although it holds none (sa = 0: no such page);                *)
(*   used: whether that page's contents were looked at;                    *)
(*   refused: whether pmm or vmm refused although a frame was there.       *)

HeapState ==
  [nodes |-> nodes, vmap |-> vmap, pool |-> pool, freed |-> <<>>,
   status |-> "ok", sa |-> 0, sh |-> ZeroRec, used |-> FALSE,
   refused |-> FALSE]

\* How an access to the heap_node_t at address a ends
Kind(s, a) ==
  IF a \notin Pages THEN (IF a = s.sa THEN "shadow" ELSE "fault")
  ELSE IF ~s.vmap[a] THEN "fault"
  ELSE IF s.nodes[a] # NoNode THEN "node"
  ELSE IF a = s.sa THEN "shadow"
  ELSE "wild"

\* the access check: a page fault or a read of arbitrary bytes stops the kernel
Acc(s, a) ==
  LET Checked(kind) ==
        IF kind \in {"node", "shadow"} THEN s ELSE [s EXCEPT !.status = kind]
  IN  IF s.status # "ok" THEN s ELSE Checked(Kind(s, a))

Rd(s, a, f) == IF Kind(s, a) = "node" THEN s.nodes[a][f] ELSE s.sh[f]

Wr(s, a, f, v) ==
  LET Store(kind) ==
        IF kind = "node" THEN [s EXCEPT !.nodes[a][f] = v]
        ELSE IF kind = "shadow" THEN [s EXCEPT !.sh[f] = v]
        ELSE [s EXCEPT !.status = kind]
  IN  IF s.status # "ok" THEN s ELSE Store(Kind(s, a))

----------------------------------------------------------------------------
(* pmm and vmm *)

\* pmm_alloc: whether a frame is handed out; none (0) when pmm refuses or
\* has none
pmm_alloc(s, ok) == IF ok /\ s.pool > 0 THEN 1 ELSE 0

pmm_take(s, phy) == [s EXCEPT !.pool = @ - 1]

\* the environment refused a frame or a mapping
Refused(s, no) == IF no /\ s.pool > 0 THEN [s EXCEPT !.refused = TRUE] ELSE s

\* pmm_free(phy): pmm takes the frame back; a null frame is none
pmm_free(s, phy) ==
  [s EXCEPT !.freed = Append(@, phy),
            !.pool = IF phy = 0 THEN @ ELSE @ + 1]

\* vmm_unmap returns the frame that was mapped at virt, 0 if none
vmm_frame(s, virt) == IF virt \in Pages /\ s.vmap[virt] THEN virt ELSE 0

vmm_unmap(s, virt) ==
  IF virt \in Pages THEN [s EXCEPT !.vmap[virt] = FALSE] ELSE s

\* vmm_map of a heap page: the page now shows the new frame, whose contents
\* are no header; a frame mapped there before is lost
vmm_map(s, virt, phy) ==
  [s EXCEPT !.vmap[virt] = TRUE, !.nodes[virt] = NoNode]


----------------------------------------------------------------------------
(* _heap_free *)

\* the loop of _heap_free over the payload pages: unmap each and give the
\* frame back to pmm, unless the page was not mapped
RECURSIVE UnmapPages(_, _, _)
UnmapPages(s, page, end) ==
  IF page >= end THEN s
  ELSE LET phy == vmm_frame(s, page)
           u   == vmm_unmap(s, page)
       IN  UnmapPages(IF phy # 0 THEN pmm_free(u, phy) ELSE u,
                      page + FRAME_SIZE, end)

\* if (node->state == HEAP_NODE_ALLOCATED) free the physical frames
FreePayload(s, node) ==
  LET Free(t) ==
        IF t.status # "ok" THEN t
        ELSE IF Rd(t, node, "state") = HEAP_NODE_ALLOCATED
             THEN UnmapPages(t, Rd(t, node, "start"), Rd(t, node, "end"))
             ELSE t
  IN  Free(Acc(s, node))

\* try to coalesce with the next node
CoalesceNext(s, node, next) ==
  LET \* unmap and free the physical frame behind the next node
      Release(s3) ==
        IF s3.status # "ok" THEN s3
        ELSE pmm_free(vmm_unmap(s3, next), vmm_frame(s3, next))
      \* update the address range
      SetEnd(s2) == Release(Wr(s2, node, "end", Rd(s2, next, "end")))
      \* update the pointers
      Links(t, nn) ==
        SetEnd(IF nn # 0
               THEN Wr(Wr(t, node, "next", nn), nn, "prev", node)
               ELSE Wr(t, node, "next", nn))
      Merge(t) ==
        IF t.status # "ok" THEN t
        ELSE IF Rd(t, next, "state") # HEAP_NODE_FREE THEN t
        ELSE Links(t, Rd(t, next, "next"))
  IN  IF s.status # "ok" \/ next = 0 THEN s ELSE Merge(Acc(s, next))

\* the header whose page the coalesce-with-previous branch unmaps and frees:
\* the local variable next
PrevBranchVictim(node, next) == next

\* try to coalesce with the previous node
CoalescePrev(s, node, next) ==
  LET v == PrevBranchVictim(node, next)
      \* unmap and free the physical frame
      Release(s3) ==
        IF s3.status # "ok" THEN s3
        ELSE pmm_free(vmm_unmap(s3, v), vmm_frame(s3, v))
      \* update the address range
      SetEnd(s2, prev) == Release(Wr(s2, prev, "end", Rd(s2, node, "end")))
      \* update the pointers
      Links(s1, prev, nn) ==
        SetEnd(IF nn # 0 THEN Wr(s1, nn, "prev", prev) ELSE s1, prev)
      Unlink(s1, prev) == Links(s1, prev, Rd(s1, node, "next"))
      Merge(t, prev) ==
        IF t.status # "ok" THEN t
        ELSE IF Rd(t, prev, "state") # HEAP_NODE_FREE THEN t
        ELSE Unlink(Wr(t, prev, "next", Rd(t, node, "next")), prev)
      Try(prev) == IF prev = 0 THEN s ELSE Merge(Acc(s, prev), prev)
  IN  IF s.status # "ok" THEN s ELSE Try(Rd(s, node, "prev"))

\* The header _heap_free works on: ptr - FRAME_SIZE.  When that page holds no
\* header but can be read (a payload page of the heap's client, the page
\* below the heap), its arbitrary contents g are what the code reads.
HeaderOf(ptr) == ptr - FRAME_SIZE

Confused(s, node) ==
  \/ node = BelowHeap
  \/ node \in Pages /\ s.vmap[node] /\ s.nodes[node] = NoNode

_heap_free(s0, ptr, g) ==
  LET node == HeaderOf(ptr)
      Coalesce(s2, next) ==
        CoalescePrev(CoalesceNext(s2, node, next), node, next)
      FromNext(s2) == Coalesce(s2, Rd(s2, node, "next"))
      Free(s) ==
        FromNext(Wr(FreePayload(s, node), node, "state", HEAP_NODE_FREE))
      Done(s4) == [s4 EXCEPT !.sa = 0, !.sh = ZeroRec]
  IN  Done(Free(IF Confused(s0, node)
                THEN IF g = NoNode THEN [s0 EXCEPT !.used = TRUE]
                     ELSE [s0 EXCEPT !.sa = node, !.sh = g, !.used = TRUE]
                ELSE s0))

----------------------------------------------------------------------------
(* find_node *)

\* size_t node_size = node->end - node->start, unsigned: a node whose end
\* lies below its start has a size near 2^64, larger than any request
Fits(n, size) == n.end < n.start \/ n.end - n.start >= size

\* extra_size >= FRAME_SIZE * 2
WorthSplitting(n, size) ==
  n.end < n.start \/ (n.end - n.start) - size >= FRAME_SIZE * 2

\* The split of the chosen node.  env.split tells what pmm and vmm answer:
\* "ok", "nophy" (pmm_alloc returns 0), "nomap" (vmm_map fails).
SplitNode(s, node, size, env) ==
  LET n    == s.nodes[node]
      phy  == pmm_alloc(s, env.split # "nophy")
      next == node + size + FRAME_SIZE
      \* update the surrounding nodes
      Around(s4, nn) ==
        IF nn # 0 /\ s4.status = "ok" THEN Wr(s4, nn, "prev", next) ELSE s4
      Linked4(s4) == Around(s4, Rd(s4, next, "next"))
      \* fill in the new heap_node_t, update the node that was split
      Fill(s1) ==
        Linked4(Wr(Wr([s1 EXCEPT
                         !.nodes[next] =
                            [start |-> node + size + FRAME_SIZE * 2,
                             end   |-> n.end,
                             state |-> HEAP_NODE_FREE,
                             prev  |-> node,
                             next  |-> n.next]],
                      node, "end", next),
                   node, "next", next))
  IN  IF ~WorthSplitting(n, size) THEN s
      ELSE IF phy = 0 THEN Refused(s, env.split = "nophy")
      ELSE IF env.split = "nomap" THEN Refused(pmm_take(s, phy), TRUE)
      ELSE IF next \notin Pages THEN [s EXCEPT !.status = "wild"]
      ELSE Fill(vmm_map(pmm_take(s, phy), next, phy))

\* The walk from node on.  seen: the headers already visited; coming back to
\* one of them without a fit, the loop never ends.
RECURSIVE FindFrom(_, _, _, _, _)
FindFrom(s, node, size, env, seen) ==
  LET Look(t) ==
        IF t.status # "ok" THEN [s |-> t, node |-> 0]
        ELSE IF \/ t.nodes[node].state # HEAP_NODE_FREE
                \/ ~Fits(t.nodes[node], size)
             THEN FindFrom(t, t.nodes[node].next, size, env, seen \cup {node})
             ELSE [s |-> Wr(SplitNode(t, node, size, env), node, "state",
                            HEAP_NODE_RESERVED),
                   node |-> node]
  IN  IF node = 0 THEN [s |-> s, node |-> 0]
      ELSE IF node \in seen THEN [s |-> [s EXCEPT !.status = "hang"], node |-> 0]
      ELSE Look(Acc(s, node))

\* heap_root is the first virtual address of the heap
heap_root == heap_start

find_node(s, size, env) == FindFrom(s, heap_root, size, env, {})

----------------------------------------------------------------------------
(* _heap_alloc *)

\* what _heap_alloc hands to _heap_free to roll back: the node itself
RollbackArg(node) == node

\* The loop that backs the pages [page, end) of the node with frames.  idx is
\* the number of the page within this call; env.failAt names the page on
\* which pmm_alloc (env.failKind = "pmm") or vmm_map ("vmm") fails.
RECURSIVE MapPages(_, _, _, _, _, _)
MapPages(s, node, page, end, idx, env) ==
  IF s.status # "ok" THEN [s |-> s, ok |-> FALSE, k |-> 0]
  ELSE IF page >= end THEN [s |-> s, ok |-> TRUE, k |-> 0]
  ELSE IF page \notin Pages THEN [s |-> [s EXCEPT !.status = "wild"], ok |-> FALSE, k |-> 0]
  ELSE LET phy == pmm_alloc(s, ~(env.failKind = "pmm" /\ env.failAt = idx))
           no  == env.failAt = idx
       IN  IF phy = 0
           THEN [s |-> _heap_free(Refused(s, no), RollbackArg(node), env.g),
                 ok |-> FALSE, k |-> idx]
           ELSE IF env.failKind = "vmm" /\ no
           THEN [s |-> _heap_free(Refused(pmm_take(s, phy), TRUE),
                                  RollbackArg(node), env.g),
                 ok |-> FALSE, k |-> idx]
           ELSE MapPages(vmm_map(pmm_take(s, phy), page, phy), node,
                         page + FRAME_SIZE, end, idx + 1, env)

\* The result: the machine state, the pointer returned (0: null), the node
\* find_node chose (0: none) and the number k of the page whose frame or
\* mapping failed (0: none).  When the kernel stops inside the call nothing
\* is returned.
_heap_alloc(s0, size0, phy_alloc, env) ==
  LET size == PAGE_ALIGN(size0)
      Result(m, node) ==
        IF m.ok
        THEN [s |-> m.s, ptr |-> node + FRAME_SIZE, node |-> node, k |-> 0]
        ELSE [s |-> m.s, ptr |-> 0, node |-> node, k |-> m.k]
      Back(s1, node) ==
        Result(MapPages(s1, node, s1.nodes[node].start,
                        s1.nodes[node].start + size, 1, env), node)
      Found(s, node) ==
        IF s.status # "ok" \/ node = 0
        THEN [s |-> s, ptr |-> 0, node |-> node, k |-> 0]
        ELSE IF ~phy_alloc
             THEN [s |-> s, ptr |-> node + FRAME_SIZE, node |-> node, k |-> 0]
             ELSE Back(Wr(s, node, "state", HEAP_NODE_ALLOCATED), node)
      Chosen(r) == Found(r.s, r.node)
  IN  Chosen(find_node(s0, size, env))

----------------------------------------------------------------------------
(* The list reached from the root *)

\* the headers reached from a by next links, in order; the walk stops at a
\* null link, at a page that holds no header and at a header already visited
RECURSIVE Walk(_, _, _)
Walk(nd, a, seen) ==
  IF a = 0 \/ a \notin Pages \/ a \in seen THEN <<>>
  ELSE IF nd[a] = NoNode THEN <<>>
  ELSE <<a>> \o Walk(nd, nd[a].next, seen \cup {a})

List(nd) == Walk(nd, heap_root, {})

Linked(nd) == {List(nd)[i] : i \in 1..Len(List(nd))}

\* The contents of an unmapped page that no link reaches can never be read
\* again: forget them.
Forget(s) ==
  [a \in Pages |->
     IF ~s.vmap[a] /\ a \notin Linked(s.nodes) THEN NoNode ELSE s.nodes[a]]

----------------------------------------------------------------------------
(* heap_init and the three operations of the heap *)

\* what the environment answers during one call of heap_alloc
Envs ==
  [split : {"ok", "nophy", "nomap"}, failAt : 0..MaxReqPages,
   failKind : {"pmm", "vmm"}, g : {ZeroRec}]

\* the contents the page at address a can have when it is read as a header
\* by mistake; NoNode: the page is not mapped and the read faults
GarbageAt(a) == IF a = BelowHeap THEN Garbage \cup {NoNode} ELSE Garbage

HeapInit ==
  LET root_phy == 1
  IN  /\ nodes = [a \in Pages |->
                    IF a = heap_root
                    THEN [next |-> 0, prev |-> 0, state |-> HEAP_NODE_FREE,
                          start |-> heap_start + FRAME_SIZE, end |-> heap_end]
                    ELSE NoNode]
      /\ vmap = [a \in Pages |-> a = heap_root]
      /\ pool = NFrames - root_phy
      /\ owned = {}
      /\ freed = <<>>
      /\ status = "ok"
      /\ refusals = 0
      /\ phase = "alloc"
      /\ last = [op |-> "heap_init", arg |-> 0, ret |-> 0, node |-> 0, k |-> 0,
                 kind |-> "", split |-> "", confused |-> FALSE]

\* The kernel runs.  Once a call has read a page that holds no header as one
\* (last.confused), what the kernel does next is not followed.
Running == status = "ok" /\ ~last.confused

Commit(s) ==
  /\ nodes' = Forget(s)
  /\ vmap' = s.vmap
  /\ pool' = s.pool
  /\ freed' = s.freed
  /\ status' = s.status

\* env is what the environment did in the call that ended in r: every
\* refusal it names was met, and the refusals stay within the bound
Effective(env, r) ==
  /\ env.split # "ok" => r.s.refused
  /\ env.failAt # 0 => r.k = env.failAt /\ r.s.refused
  /\ r.s.refused => refusals < MaxRefusals

AllocStep(op, size, phy_alloc, env, r) ==
  /\ Effective(env, r)
  /\ refusals' = IF r.s.refused THEN refusals + 1 ELSE refusals
  /\ Commit(r.s)
  /\ owned' = IF r.ptr # 0 THEN owned \cup {r.ptr} ELSE owned
  /\ phase' = IF phase = "alloc" /\ r.ptr # 0 THEN "alloc" ELSE "mixed"
  /\ last' = [op |-> op, arg |-> size, ret |-> r.ptr, node |-> r.node,
              k |-> r.k, kind |-> IF r.k # 0 THEN env.failKind ELSE "",
              split |-> env.split, confused |-> r.s.used]

\* void *heap_alloc(size_t size, int flags)
HeapAlloc(size, env) ==
  LET Step(r0) ==
        IF ~r0.s.used
        THEN AllocStep("heap_alloc", size, TRUE, env, r0)
        ELSE \E g \in GarbageAt(HeaderOf(RollbackArg(r0.node))) :
               AllocStep("heap_alloc", size, TRUE, [env EXCEPT !.g = g],
                         _heap_alloc(HeapState, size, TRUE, [env EXCEPT !.g = g]))
  IN  /\ Running
      /\ env.failAt = 0 => env.failKind = "pmm"
      /\ Step(_heap_alloc(HeapState, size, TRUE, env))

\* void *heap_reserve(size_t size)
HeapReserve(size, env) ==
  /\ Running
  /\ env.failAt = 0 /\ env.failKind = "pmm"
  /\ AllocStep("heap_reserve", size, FALSE, env,
               _heap_alloc(HeapState, size, FALSE, env))

FreeStep(ptr, s) ==
  /\ UNCHANGED refusals
  /\ Commit(s)
  /\ owned' = owned \ {ptr}
  /\ phase' = IF phase \in {"alloc", "free"} THEN "free" ELSE "mixed"
  /\ last' = [op |-> "heap_free", arg |-> ptr, ret |-> 0,
              node |-> HeaderOf(ptr), k |-> 0, kind |-> "", split |-> "",
              confused |-> s.used]

\* void heap_free(void *ptr), given a pointer handed out and not yet freed
HeapFree(ptr) ==
  LET Step(s0) ==
        IF ~s0.used THEN FreeStep(ptr, s0)
        ELSE \E g \in GarbageAt(HeaderOf(ptr)) :
               FreeStep(ptr, _heap_free(HeapState, ptr, g))
  IN  /\ Running
      /\ ptr \in owned
      /\ Step(_heap_free(HeapState, ptr, ZeroRec))

----------------------------------------------------------------------------
(* Interrupt routing and dispatch: constants and bounds *)

FAULT31 == 31

IRQ0 == 32

IRQS == 224

SPURIOUS == 255

\* the number of intr_handler_node_t objects malloc can hand out
MaxHNodes == 3

HNodeIds == 1..MaxHNodes

Handlers == {"H1", "H2"}

\* The I/O APICs ioapic_iter() enumerates, in discovery order: two
\* controllers of 24 lines each
IoApics ==
  <<[id |-> 0, irq_base |-> 0, irqs |-> 24],
    [id |-> 1, irq_base |-> 24, irqs |-> 24]>>

\* the IRQ lines the drivers use: the last line of the first controller, the
\* first line of the second, and a line of no controller whose vector is
\* that of the second
Irqs == {23, 24, IRQS + 24}

Tuples ==
  {[irq |-> i, active_polarity |-> "high", trigger |-> "edge"] : i \in Irqs}

\* the vector of an IRQ line
IrqVector(irq) == (irq % IRQS) + IRQ0

\* the vectors the model fires and routes: the last fault, the spurious
\* vector and the vectors of the lines above
Vectors == {FAULT31, SPURIOUS} \cup {IrqVector(i) : i \in Irqs}

FreeHNode == [handler |-> "", next |-> 0]

\* the events of a trace
Ev(ev, intr, h, apic, irq, chain) ==
  [ev |-> ev, intr |-> intr, h |-> h, apic |-> apic, irq |-> irq, chain |-> chain]

\* the handlers of the chain that starts at node, head first
RECURSIVE ChainFrom(_, _)
ChainFrom(hn, node) ==
  IF node = 0 THEN <<>> ELSE <<hn[node].handler>> \o ChainFrom(hn, hn[node].next)

\* the routing state an operation works on, as one record
IntrState == [handlers |-> intr_handlers, hn |-> hnodes, trace |-> <<>>]

Chain(st, intr) == ChainFrom(st.hn, st.handlers[intr])

Log(st, e) == [st EXCEPT !.trace = Append(@, e)]

----------------------------------------------------------------------------
(* intr_dispatch *)

\* a dispatcher that also acknowledges the last vector of the fault range
MustAckFrom31(intr) == intr >= FAULT31 /\ intr # SPURIOUS

\* if (intr > FAULT31 && intr != SPURIOUS)
MustAck(intr) == intr > FAULT31 /\ intr # SPURIOUS

\* the acknowledgement at the head of intr_dispatch
AckStep(st, intr) ==
  IF MustAck(intr) THEN Log(st, Ev("ic_ack", intr, "", -1, -1, <<>>)) ELSE st

\* the loop that calls all the handlers, from node on
RECURSIVE CallFrom(_, _, _)
CallFrom(st, node, id) ==
  IF node = 0 THEN st
  ELSE CallFrom(Log(st, Ev("call", id, st.hn[node].handler, -1, -1, <<>>)),
                st.hn[node].next, id)

\* a dispatcher that goes on to the (empty) loop instead of panicking
DispatchWithoutPanic(st, id) ==
  LET s1 == AckStep(st, id)
  IN  [st |-> CallFrom(s1, s1.handlers[id], id), panic |-> FALSE]

\* void intr_dispatch(intr_state_t *state), state->id = id: the routing
\* state after it and whether it panicked
intr_dispatch(st, id) ==
  LET s1   == AckStep(st, id)
      head == s1.handlers[id]
  IN  IF head = 0
      THEN [st |-> Log(s1, Ev("panic", id, "", -1, -1, <<>>)), panic |-> TRUE]
      ELSE [st |-> CallFrom(s1, head, id), panic |-> FALSE]

----------------------------------------------------------------------------
(* registration and removal of handlers *)

\* malloc(sizeof(intr_handler_node_t)): a node not in use, 0 if malloc fails
malloc(st, ok) ==
  IF ok /\ \E n \in HNodeIds : st.hn[n] = FreeHNode
  THEN CHOOSE n \in HNodeIds :
         st.hn[n] = FreeHNode /\ \A m \in HNodeIds : st.hn[m] = FreeHNode => n <= m
  ELSE 0

\* the last node of the chain that starts at node
RECURSIVE LastFrom(_, _)
LastFrom(hn, node) == IF hn[node].next = 0 THEN node ELSE LastFrom(hn, hn[node].next)

\* a registration that appends the node to the handler list of intr
AppendNode(st, intr, node, handler) ==
  LET s1 == [st EXCEPT !.hn[node] = [handler |-> handler, next |-> 0]]
  IN  IF st.handlers[intr] = 0
      THEN [s1 EXCEPT !.handlers[intr] = node]
      ELSE [s1 EXCEPT !.hn[LastFrom(st.hn, st.handlers[intr])].next = node]

\* cons the node onto the handler list of intr
ConsNode(st, intr, node, handler) ==
  [st EXCEPT !.hn[node] = [handler |-> handler, next |-> st.handlers[intr]],
             !.handlers[intr] = node]

\* static bool _intr_route_intr(intr_t intr, intr_handler_t handler)
_intr_route_intr(st, intr, handler, ok) ==
  LET tail_node == malloc(st, ok)
  IN  IF tail_node = 0 THEN [st |-> st, ok |-> FALSE]
      ELSE [st |-> ConsNode(st, intr, tail_node, handler), ok |-> TRUE]

\* a removal that does not stop at the first node that holds the handler
RECURSIVE UnrouteEvery(_, _, _, _, _)
UnrouteEvery(st, intr, handler, prev, node) ==
  IF node = 0 THEN st
  ELSE IF st.hn[node].handler = handler
       THEN LET s1 == IF prev = 0
                      THEN [st EXCEPT !.handlers[intr] = st.hn[node].next]
                      ELSE [st EXCEPT !.hn[prev].next = st.hn[node].next]
                s2 == Log([s1 EXCEPT !.hn[node] = FreeHNode],
                          Ev("free", intr, handler, -1, -1, <<>>))
            IN  UnrouteEvery(s2, intr, handler, prev, st.hn[node].next)
       ELSE UnrouteEvery(st, intr, handler, node, st.hn[node].next)

\* the loop of _intr_unroute_intr from node on, prev being the node before
RECURSIVE UnrouteFrom(_, _, _, _, _)
UnrouteFrom(st, intr, handler, prev, node) ==
  IF node = 0 THEN st
  ELSE IF st.hn[node].handler = handler
       THEN LET s1 == IF prev = 0
                      THEN [st EXCEPT !.handlers[intr] = st.hn[node].next]
                      ELSE [st EXCEPT !.hn[prev].next = st.hn[node].next]
            IN  Log([s1 EXCEPT !.hn[node] = FreeHNode],
                    Ev("free", intr, handler, -1, -1, <<>>))
       ELSE UnrouteFrom(st, intr, handler, node, st.hn[node].next)

\* static void _intr_unroute_intr(intr_t intr, intr_handler_t handler)
_intr_unroute_intr(st, intr, handler) ==
  UnrouteFrom(st, intr, handler, 0, st.handlers[intr])

\* if (irq >= irq_first && irq < irq_last), irq_last being the last line
InRange(apic, irq) ==
  LET irq_first == apic.irq_base
      irq_last  == apic.irq_base + apic.irqs - 1
  IN  irq >= irq_first /\ irq < irq_last

\* what intr_route_irq does for the controller it found
RouteOn(st, apic, tuple, intr, handler, ok) ==
  LET r  == _intr_route_intr(st, intr, handler, ok)
      s1 == Log(r.st, Ev("ioapic_route", intr, handler, apic.id, tuple.irq,
                         Chain(r.st, intr)))
  IN  [st |-> s1, ok |-> r.ok]

\* the loop of intr_route_irq over the controllers, from the i-th on
RECURSIVE RouteIrqFrom(_, _, _, _, _, _)
RouteIrqFrom(st, i, tuple, intr, handler, ok) ==
  IF i > Len(IoApics) THEN [st |-> st, ok |-> FALSE]
  ELSE IF InRange(IoApics[i], tuple.irq)
       THEN RouteOn(st, IoApics[i], tuple, intr, handler, ok)
       ELSE RouteIrqFrom(st, i + 1, tuple, intr, handler, ok)

\* bool intr_route_irq(irq_tuple_t *tuple, intr_handler_t handler)
intr_route_irq(st, tuple, handler, ok) ==
  RouteIrqFrom(st, 1, tuple, IrqVector(tuple.irq), handler, ok)

\* the loop of intr_unroute_irq over the controllers, from the i-th on
RECURSIVE MaskFrom(_, _, _)
MaskFrom(st, i, tuple) ==
  IF i > Len(IoApics) THEN st
  ELSE MaskFrom(IF InRange(IoApics[i], tuple.irq)
                THEN Log(st, Ev("ioapic_mask", IrqVector(tuple.irq), "",
                                IoApics[i].id, tuple.irq, <<>>))
                ELSE st,
                i + 1, tuple)

\* void intr_unroute_irq(irq_tuple_t *tuple, intr_handler_t handler)
intr_unroute_irq(st, tuple, handler) ==
  _intr_unroute_intr(MaskFrom(st, 1, tuple), IrqVector(tuple.irq), handler)

----------------------------------------------------------------------------
(* The operations on the routing table, each under the routing lock *)

IntrInit ==
  /\ intr_handlers = [v \in Vectors |-> 0]
  /\ hnodes = [n \in HNodeIds |-> FreeHNode]
  /\ trace = <<>>
  /\ istatus = "ok"
  /\ ilast = [op |-> "init", ok |-> TRUE, intr |-> 0]
  /\ regs = [v \in Vectors |-> <<>>]

\* The registrations on record after an operation on vector intr that ended
\* in state st: the nodes it freed are struck, the node it allocated is the
\* newest registration on intr.
Registered(st, intr) ==
  [v \in Vectors |->
     LET kept  == SelectSeq(regs[v], LAMBDA n : st.hn[n] # FreeHNode)
         fresh == {n \in HNodeIds : hnodes[n] = FreeHNode /\ st.hn[n] # FreeHNode}
     IN  IF v = intr /\ fresh # {}
         THEN Append(kept, CHOOSE n \in fresh : TRUE)
         ELSE kept]

IntrCommit(st) ==
  /\ intr_handlers' = st.handlers
  /\ hnodes' = st.hn
  /\ trace' = st.trace

IntrDispatch(intr) ==
  /\ istatus = "ok"
  /\ LET r == intr_dispatch(IntrState, intr)
     IN  /\ IntrCommit(r.st)
         /\ istatus' = IF r.panic THEN "panic" ELSE "ok"
         /\ ilast' = [op |-> "intr_dispatch", ok |-> ~r.panic, intr |-> intr]
  /\ UNCHANGED regs

\* bool intr_route_intr(intr_t intr, intr_handler_t handler)
IntrRouteIntr(intr, handler, mem) ==
  /\ istatus = "ok"
  /\ LET r == _intr_route_intr(IntrState, intr, handler, mem)
     IN  /\ IntrCommit(r.st)
         /\ ilast' = [op |-> "intr_route_intr", ok |-> r.ok, intr |-> 0]
         /\ regs' = Registered(r.st, intr)
  /\ UNCHANGED istatus

\* void intr_unroute_intr(intr_t intr, intr_handler_t handler)
IntrUnrouteIntr(intr, handler) ==
  /\ istatus = "ok"
  /\ LET st == _intr_unroute_intr(IntrState, intr, handler)
     IN  IntrCommit(st) /\ regs' = Registered(st, intr)
  /\ ilast' = [op |-> "intr_unroute_intr", ok |-> TRUE, intr |-> 0]
  /\ UNCHANGED istatus

IntrRouteIrq(tuple, handler, mem) ==
  /\ istatus = "ok"
  /\ LET r == intr_route_irq(IntrState, tuple, handler, mem)
     IN  /\ IntrCommit(r.st)
         /\ ilast' = [op |-> "intr_route_irq", ok |-> r.ok, intr |-> 0]
         /\ regs' = Registered(r.st, IrqVector(tuple.irq))
  /\ UNCHANGED istatus

IntrUnrouteIrq(tuple, handler) ==
  /\ istatus = "ok"
  /\ LET st == intr_unroute_irq(IntrState, tuple, handler)
     IN  IntrCommit(st) /\ regs' = Registered(st, IrqVector(tuple.irq))
  /\ ilast' = [op |-> "intr_unroute_irq", ok |-> TRUE, intr |-> 0]
  /\ UNCHANGED istatus

----------------------------------------------------------------------------
(* The routing table under parallel callers: every CPU runs one call at a  *)
(* time, a step at a time; intr_route_lock orders them.                    *)

\* the number of CPUs
NCpus == 3

Cpus == 1..NCpus

\* the number of CPUs that register and remove handlers; all take interrupts
NRegistrars == 2

Registrars == 1..NRegistrars

\* the vectors the parallel callers work on
CpuVectors == {IrqVector(tuple.irq) : tuple \in Tuples} \cup {SPURIOUS}

\* the handler the parallel callers register and remove
CpuHandlers == {"H1"}

\* the nodes that malloc has handed out and free has not taken back
InUse(hn) == {n \in HNodeIds : hn[n] # FreeHNode}

\* the local variables of a CPU that runs no call
IdleLoc ==
  [op |-> "", intr |-> 0, h |-> "", node |-> 0, prev |-> 0,
   seen |-> <<>>, snap |-> <<>>]

\* a node malloc has handed out and nobody has written yet
RawHNode == [handler |-> "?", next |-> 0]

\* the reader/writer lock: many readers or one writer
rw_can_wlock(l) == l.readers = 0 /\ l.writer = 0

rw_wlock(l, c) == [l EXCEPT !.writer = c]

rw_wunlock(l) == [l EXCEPT !.writer = 0]

rw_can_rlock(l) == l.writer = 0

rw_rlock(l) == [l EXCEPT !.readers = @ + 1]

rw_runlock(l) == [l EXCEPT !.readers = IF @ > 0 THEN @ - 1 ELSE 0]

\* a caller that takes no lock
NoAcquire(l, c) == [ok |-> TRUE, l |-> l]

\* intr_route_intr: intr_lock(); rw_wlock(&intr_route_lock);
RouteAcquire(l, c) == [ok |-> rw_can_wlock(l), l |-> rw_wlock(l, c)]

\* intr_unroute_intr, intr_unroute_irq: intr_lock(); rw_wlock(&intr_route_lock);
UnrouteAcquire(l, c) == [ok |-> rw_can_wlock(l), l |-> rw_wlock(l, c)]

\* intr_dispatch: rw_rlock(&intr_route_lock);
DispatchAcquire(l, c) == [ok |-> rw_can_rlock(l), l |-> rw_rlock(l)]

CpuInit ==
  /\ pc = [c \in Cpus |-> "idle"]
  /\ loc = [c \in Cpus |-> IdleLoc]
  /\ rw = [readers |-> 0, writer |-> 0]
  /\ cstatus = "ok"

\* CPU c is at label l of its call
At(c, l) == cstatus = "ok" /\ pc[c] = l

Goto(c, l) == pc' = [pc EXCEPT ![c] = l]

\* CPU c enters op with these arguments and waits for the lock
Enter(c, op, intr, h, l) ==
  /\ At(c, "idle")
  /\ Goto(c, l)
  /\ loc' = [loc EXCEPT ![c] = [IdleLoc EXCEPT !.op = op, !.intr = intr, !.h = h]]
  /\ UNCHANGED <<intr_handlers, hnodes, rw, cstatus>>

\* CPU c returns from its call
Leave(c) == Goto(c, "idle") /\ loc' = [loc EXCEPT ![c] = IdleLoc]

CpuRouteIntr(c, intr, h) == Enter(c, "intr_route_intr", intr, h, "r_lock")

\* rw_wlock(&intr_route_lock) of intr_route_intr
CpuRouteLock(c) ==
  /\ At(c, "r_lock")
  /\ RouteAcquire(rw, c).ok
  /\ rw' = RouteAcquire(rw, c).l
  /\ Goto(c, "r_malloc")
  /\ UNCHANGED <<intr_handlers, hnodes, loc, cstatus>>

\* tail_node = malloc(sizeof(*tail_node)); if (!tail_node) return false;
CpuRouteMalloc(c) ==
  /\ At(c, "r_malloc")
  /\ LET tail_node == malloc([hn |-> hnodes], TRUE)
     IN  IF tail_node = 0
         THEN Goto(c, "r_unlock") /\ UNCHANGED <<hnodes, loc>>
         ELSE /\ hnodes' = [hnodes EXCEPT ![tail_node] = RawHNode]
              /\ loc' = [loc EXCEPT ![c].node = tail_node]
              /\ Goto(c, "r_fill")
  /\ UNCHANGED <<intr_handlers, rw, cstatus>>

\* tail_node->handler = handler;
CpuRouteFill(c) ==
  /\ At(c, "r_fill")
  /\ hnodes' = [hnodes EXCEPT ![loc[c].node].handler = loc[c].h]
  /\ Goto(c, "r_next")
  /\ UNCHANGED <<intr_handlers, loc, rw, cstatus>>

\* tail_node->next = intr_handlers[intr];
CpuRouteNext(c) ==
  /\ At(c, "r_next")
  /\ hnodes' = [hnodes EXCEPT ![loc[c].node].next = intr_handlers[loc[c].intr]]
  /\ Goto(c, "r_head")
  /\ UNCHANGED <<intr_handlers, loc, rw, cstatus>>

\* intr_handlers[intr] = tail_node;
CpuRouteHead(c) ==
  /\ At(c, "r_head")
  /\ intr_handlers' = [intr_handlers EXCEPT ![loc[c].intr] = loc[c].node]
  /\ Goto(c, "r_unlock")
  /\ UNCHANGED <<hnodes, loc, rw, cstatus>>

\* rw_wunlock(&intr_route_lock); intr_unlock(); return ok;
CpuRouteUnlock(c) ==
  /\ At(c, "r_unlock")
  /\ rw' = rw_wunlock(rw)
  /\ Leave(c)
  /\ UNCHANGED <<intr_handlers, hnodes, cstatus>>

CpuUnrouteIntr(c, intr, h) == Enter(c, "intr_unroute_intr", intr, h, "u_lock")

CpuUnrouteIrq(c, tuple, h) ==
  Enter(c, "intr_unroute_irq", IrqVector(tuple.irq), h, "u_lock")

\* rw_wlock(&intr_route_lock) of intr_unroute_intr and intr_unroute_irq
CpuUnrouteLock(c) ==
  /\ At(c, "u_lock")
  /\ UnrouteAcquire(rw, c).ok
  /\ rw' = UnrouteAcquire(rw, c).l
  /\ Goto(c, IF loc[c].op = "intr_unroute_irq" THEN "u_mask" ELSE "u_first")
  /\ UNCHANGED <<intr_handlers, hnodes, loc, cstatus>>

\* intr_unroute_irq: the loop that masks the line at its controllers
CpuUnrouteMask(c) ==
  /\ At(c, "u_mask")
  /\ Goto(c, "u_first")
  /\ UNCHANGED <<intr_handlers, hnodes, loc, rw, cstatus>>

\* for (prev = 0, node = intr_handlers[intr]; ...
CpuUnrouteFirst(c) ==
  /\ At(c, "u_first")
  /\ loc' = [loc EXCEPT ![c].prev = 0, ![c].node = intr_handlers[loc[c].intr]]
  /\ Goto(c, "u_test")
  /\ UNCHANGED <<intr_handlers, hnodes, rw, cstatus>>

\* ...; node; prev = node, node = node->next) if (node->handler == handler)
CpuUnrouteTest(c) ==
  /\ At(c, "u_test")
  /\ LET node == loc[c].node
     IN  IF node = 0 THEN Goto(c, "u_unlock") /\ UNCHANGED loc
         ELSE IF hnodes[node].handler = loc[c].h
              THEN Goto(c, "u_unlink") /\ UNCHANGED loc
              ELSE /\ loc' = [loc EXCEPT ![c].prev = node,
                                         ![c].node = hnodes[node].next]
                   /\ UNCHANGED pc
  /\ UNCHANGED <<intr_handlers, hnodes, rw, cstatus>>

\* unlink it from the list
CpuUnrouteUnlink(c) ==
  /\ At(c, "u_unlink")
  /\ LET node == loc[c].node
         prev == loc[c].prev
     IN  IF prev = 0
         THEN /\ intr_handlers' =
                   [intr_handlers EXCEPT ![loc[c].intr] = hnodes[node].next]
              /\ UNCHANGED hnodes
         ELSE /\ hnodes' = [hnodes EXCEPT ![prev].next = hnodes[node].next]
              /\ UNCHANGED intr_handlers
  /\ Goto(c, "u_free")
  /\ UNCHANGED <<loc, rw, cstatus>>

\* free(node); return;
CpuUnrouteFree(c) ==
  /\ At(c, "u_free")
  /\ hnodes' = [hnodes EXCEPT ![loc[c].node] = FreeHNode]
  /\ Goto(c, "u_unlock")
  /\ UNCHANGED <<intr_handlers, loc, rw, cstatus>>

\* rw_wunlock(&intr_route_lock); intr_unlock();
CpuUnrouteUnlock(c) ==
  /\ At(c, "u_unlock")
  /\ rw' = rw_wunlock(rw)
  /\ Leave(c)
  /\ UNCHANGED <<intr_handlers, hnodes, cstatus>>

\* intr_dispatch up to the read lock
CpuDispatch(c, id) == Enter(c, "intr_dispatch", id, "", "d_lock")

\* rw_rlock(&intr_route_lock); snap: the chain of the vector at this moment
CpuDispatchLock(c) ==
  /\ At(c, "d_lock")
  /\ DispatchAcquire(rw, c).ok
  /\ rw' = DispatchAcquire(rw, c).l
  /\ loc' = [loc EXCEPT
               ![c].snap = ChainFrom(hnodes, intr_handlers[loc[c].intr])]
  /\ Goto(c, "d_head")
  /\ UNCHANGED <<intr_handlers, hnodes, cstatus>>

\* head = intr_handlers[state->id]; if (!head) panic(...);
CpuDispatchHead(c) ==
  /\ At(c, "d_head")
  /\ LET head == intr_handlers[loc[c].intr]
     IN  IF head = 0
         THEN cstatus' = "panic" /\ UNCHANGED <<pc, loc>>
         ELSE /\ loc' = [loc EXCEPT ![c].node = head]
              /\ Goto(c, "d_call")
              /\ UNCHANGED cstatus
  /\ UNCHANGED <<intr_handlers, hnodes, rw>>

\* handler = node->handler; (*handler)(state); node = node->next: seen are
\* the handlers called so far; reading a node that was freed is the end
CpuDispatchCall(c) ==
  /\ At(c, "d_call")
  /\ LET node == loc[c].node
     IN  IF hnodes[node] = FreeHNode
         THEN cstatus' = "uaf" /\ UNCHANGED <<pc, loc>>
         ELSE /\ loc' = [loc EXCEPT
                           ![c].seen = Append(@, hnodes[node].handler),
                           ![c].node = hnodes[node].next]
              /\ Goto(c, IF hnodes[node].next = 0 THEN "d_unlock" ELSE "d_call")
              /\ UNCHANGED cstatus
  /\ UNCHANGED <<intr_handlers, hnodes, rw>>

\* rw_runlock(&intr_route_lock);
CpuDispatchUnlock(c) ==
  /\ At(c, "d_unlock")
  /\ rw' = rw_runlock(rw)
  /\ Leave(c)
  /\ UNCHANGED <<intr_handlers, hnodes, cstatus>>

----------------------------------------------------------------------------
(* The locks as the CPUs nest them: heap_alloc and heap_free take the heap  *)
(* spinlock with interrupts enabled, a registration masks interrupts, takes *)
(* intr_route_lock for writing and allocates its node, an interrupt runs    *)
(* intr_dispatch on top of whatever the CPU was doing.                      *)

\* the statements at which the CPU has interrupts masked: those of a
\* registration after intr_lock, and those of an interrupt handler
MaskedAt == {"r_wlock", "r_malloc", "r_link", "d_rlock", "d_call"}

Masked(c) == \E i \in 1..Len(stack[c]) : stack[c][i] \in MaskedAt

\* where the innermost call of CPU c is ("": it runs none)
Top(c) == IF stack[c] = <<>> THEN "" ELSE stack[c][Len(stack[c])]

\* the innermost call of CPU c moves to statement l
Move(c, l) == stack' = [stack EXCEPT ![c][Len(stack[c])] = l]

Push(c, l) == stack' = [stack EXCEPT ![c] = Append(@, l)]

Pop(c) == stack' = [stack EXCEPT ![c] = SubSeq(@, 1, Len(@) - 1)]

LockInit ==
  /\ heap_lock = 0
  /\ stack = [c \in Cpus |-> <<>>]

\* spin_lock leaves its loop when the word is SPIN_UNLOCKED
spin_can_lock(l) == l = 0

\* heap_alloc, heap_reserve or heap_free called from thread context
LockHeapCall(c) ==
  /\ stack[c] = <<>>
  /\ Push(c, "h_lock")
  /\ UNCHANGED <<heap_lock, rw>>

\* spin_lock(&heap_lock);
LockHeapLock(c) ==
  /\ Top(c) = "h_lock"
  /\ spin_can_lock(heap_lock)
  /\ heap_lock' = c
  /\ Move(c, "h_body")
  /\ UNCHANGED rw

\* _heap_alloc or _heap_free; spin_unlock(&heap_lock); return
LockHeapUnlock(c) ==
  /\ Top(c) = "h_body"
  /\ heap_lock' = 0
  /\ Pop(c)
  /\ UNCHANGED rw

\* intr_route_intr or intr_route_irq called from thread context: intr_lock();
LockRouteCall(c) ==
  /\ stack[c] = <<>>
  /\ Push(c, "r_wlock")
  /\ UNCHANGED <<heap_lock, rw>>

\* rw_wlock(&intr_route_lock);
LockRouteLock(c) ==
  /\ Top(c) = "r_wlock"
  /\ RouteAcquire(rw, c).ok
  /\ rw' = RouteAcquire(rw, c).l
  /\ Move(c, "r_malloc")
  /\ UNCHANGED heap_lock

\* malloc(sizeof(*tail_node)): it takes the node from the heap (grow), or
\* from memory it got from the heap before
LockRouteMalloc(c, grow) ==
  /\ Top(c) = "r_malloc"
  /\ stack' = [stack EXCEPT
                 ![c] = IF grow
                        THEN SubSeq(@, 1, Len(@) - 1) \o <<"r_link", "h_lock">>
                        ELSE SubSeq(@, 1, Len(@) - 1) \o <<"r_link">>]
  /\ UNCHANGED <<heap_lock, rw>>

\* the node is linked; rw_wunlock(&intr_route_lock); intr_unlock(); return
LockRouteUnlock(c) ==
  /\ Top(c) = "r_link"
  /\ rw' = rw_wunlock(rw)
  /\ Pop(c)
  /\ UNCHANGED heap_lock

\* an interrupt arrives at a CPU that has interrupts enabled: intr_dispatch
LockInterrupt(c) ==
  /\ ~Masked(c)
  /\ Push(c, "d_rlock")
  /\ UNCHANGED <<heap_lock, rw>>

\* rw_rlock(&intr_route_lock);
LockDispatchLock(c) ==
  /\ Top(c) = "d_rlock"
  /\ DispatchAcquire(rw, c).ok
  /\ rw' = DispatchAcquire(rw, c).l
  /\ Move(c, "d_call")
  /\ UNCHANGED heap_lock

\* the handlers run and return; rw_runlock(&intr_route_lock); iret
LockDispatchUnlock(c) ==
  /\ Top(c) = "d_call"
  /\ rw' = rw_runlock(rw)
  /\ Pop(c)
  /\ UNCHANGED heap_lock

----------------------------------------------------------------------------
(* Properties of the heap *)

\* the pages of the payload range [start, end) of a node
PayloadPages(n) == {p \in Pages : n.start <= p /\ p < n.end}

\* The node list reached from the root tiles the heap: the root header is at
\* the heap base, every payload starts one page after its header, every
\* header follows its predecessor's payload, the links agree, and the last
\* payload ends at the heap end.
Tiles ==
  LET L == List(nodes)
      n == Len(L)
  IN  /\ n >= 1
      /\ L[1] = heap_start
      /\ nodes[L[1]].prev = 0
      /\ nodes[L[n]].next = 0
      /\ nodes[L[n]].end = heap_end
      /\ \A i \in 1..n :
           /\ nodes[L[i]].start = L[i] + FRAME_SIZE
           /\ nodes[L[i]].start <= nodes[L[i]].end
      /\ \A i \in 1..(n - 1) :
           /\ L[i + 1] = nodes[L[i]].end
           /\ nodes[L[i]].next = L[i + 1]
           /\ nodes[L[i + 1]].prev = L[i]

\* C1: after heap_init and after every heap_alloc, heap_reserve and heap_free
\* that returned, the node list reached from the root is sorted by address
\* and tiles the heap's range exactly.
C1_ListTilesHeap == status = "ok" => Tiles

\* C2: between heap operations the header page of every node linked in the
\* list is mapped.
C2_LinkedHeadersMapped ==
  status = "ok" => \A a \in Linked(nodes) : vmap[a]

\* C3: between heap operations every payload page of an ALLOCATED node is
\* mapped and no payload page of a FREE or RESERVED node is.
C3_PayloadMappedIffAllocated ==
  status = "ok" =>
    \A a \in Linked(nodes) : \A p \in PayloadPages(nodes[a]) :
      vmap[p] <=> nodes[a].state = HEAP_NODE_ALLOCATED

\* the entries of a sequence, as a set
Range(q) == {q[i] : i \in 1..Len(q)}

\* a step that is the call heap_free(ptr) of an ALLOCATED node between two
\* FREE neighbours, in a heap whose list tiles it
FreeBetweenFree(ptr) ==
  LET n == HeaderOf(ptr)
  IN  /\ HeapFree(ptr)
      /\ Tiles
      /\ \A a \in Linked(nodes) : vmap[a]
      /\ n \in Linked(nodes)
      /\ nodes[n].state = HEAP_NODE_ALLOCATED
      /\ nodes[n].prev # 0 /\ nodes[nodes[n].prev].state = HEAP_NODE_FREE
      /\ nodes[n].next # 0 /\ nodes[nodes[n].next].state = HEAP_NODE_FREE

\* what C4 promises of such a step
CoalescedBoth(ptr) ==
  LET n  == HeaderOf(ptr)
      pv == nodes[n].prev
      nx == nodes[n].next
  IN  /\ status' = "ok"
      /\ nodes'[pv].state = HEAP_NODE_FREE
      /\ nodes'[pv].start = nodes[pv].start
      /\ nodes'[pv].end = nodes[nx].end
      /\ nodes'[pv].next = nodes[nx].next
      /\ Linked(nodes') = Linked(nodes) \ {n, nx}
      /\ Len(freed') = Cardinality(Range(freed'))
      /\ Range(freed') = {p \in PayloadPages(nodes[n]) : vmap[p]} \cup {n, nx}

\* C4: heap_free of an ALLOCATED node whose neighbours are both FREE leaves
\* one FREE node over the three ranges, and returns to pmm the node's payload
\* frames and exactly the two header frames of the absorbed nodes.
C4_FreeCoalescesBoth ==
  [][\A ptr \in owned : FreeBetweenFree(ptr) => CoalescedBoth(ptr)]_vars

\* a step that is a heap_alloc whose k-th page could not be backed
AllocFailsAtPage(k) ==
  /\ Tiles
  /\ \A a \in Linked(nodes) : vmap[a]
  /\ last'.op = "heap_alloc"
  /\ last'.k = k
  /\ \E size \in ReqSizes, env \in Envs : HeapAlloc(size, env)

\* what C5 promises of such a step: null is returned, the list and the states
\* of its nodes are as before the call, and the k-1 frames the call had mapped
\* are unmapped and back in pmm
RolledBack(k) ==
  LET n == last'.node
  IN  /\ status' = "ok"
      /\ last'.ret = 0
      /\ List(nodes') = List(nodes)
      /\ \A a \in Linked(nodes) : nodes'[a] = nodes[a]
      /\ vmap' = vmap
      /\ Len(freed') = k - 1
      /\ \A i \in 1..(k - 1) : freed'[i] = n + i * FRAME_SIZE

\* C5: when pmm_alloc or vmm_map fails on the k-th payload page, heap_alloc
\* returns null with the heap as it was before the call, and exactly the k-1
\* frames it had mapped have been returned to pmm.
C5_FailedAllocRollsBack ==
  [][\A k \in 1..(HeapPages - 1) : AllocFailsAtPage(k) => RolledBack(k)]_vars

\* the list is one FREE node over the whole heap
OneFreeNode ==
  /\ List(nodes) = <<heap_start>>
  /\ nodes[heap_start] =
       [next |-> 0, prev |-> 0, state |-> HEAP_NODE_FREE,
        start |-> heap_start + FRAME_SIZE, end |-> heap_end]

\* C6: once allocations that all returned a pointer have been followed by
\* heap_free of every pointer, in any order, the list is again one FREE node
\* over the whole heap.
C6_RoundTrip ==
  (phase = "free" /\ owned = {}) => (status = "ok" /\ OneFreeNode)

\* an allocation has just returned
Allocated == last'.op \in {"heap_alloc", "heap_reserve"}

\* the FREE node nearest the list head whose payload holds size bytes, 0 if
\* there is none
FirstFit(size) ==
  LET L    == List(nodes)
      fits == {i \in 1..Len(L) :
                 /\ nodes[L[i]].state = HEAP_NODE_FREE
                 /\ nodes[L[i]].end - nodes[L[i]].start >= size}
  IN  IF fits = {} THEN 0
      ELSE L[CHOOSE i \in fits : \A j \in fits : i <= j]

\* C16: heap_alloc and heap_reserve take the FREE node nearest the list head
\* whose payload holds the request rounded up to whole pages and return its
\* header address + FRAME_SIZE (unless a page of it could not be mapped);
\* when no FREE node is large enough they return null and leave the list,
\* the node states, the mappings and the frame pool as they were.
C16_FirstFit ==
  [][Allocated =>
       LET node == FirstFit(PAGE_ALIGN(last'.arg))
       IN  IF node # 0
           THEN /\ last'.node = node
                /\ last'.k = 0 => last'.ret = node + FRAME_SIZE
           ELSE /\ last'.ret = 0
                /\ nodes' = nodes /\ vmap' = vmap /\ pool' = pool]_vars

\* the list with header next put right after header node
InsertAfter(L, node, next) ==
  LET i == CHOOSE j \in 1..Len(L) : L[j] = node
  IN  SubSeq(L, 1, i) \o <<next>> \o SubSeq(L, i + 1, Len(L))

\* what C17 promises of an allocation that chose node for size bytes: the
\* split when it is worth it and pmm and vmm gave the header page, the whole
\* node otherwise
SplitAsRuled(node, size) ==
  LET n     == nodes[node]
      extra == (n.end - n.start) - size
      next  == node + size + FRAME_SIZE
  IN  IF extra >= 2 * FRAME_SIZE /\ pool > 0 /\ last'.split = "ok"
      THEN /\ nodes'[node].start = n.start
           /\ nodes'[node].end = n.start + size
           /\ nodes'[node].next = next
           /\ nodes'[next] = [start |-> node + size + 2 * FRAME_SIZE,
                              end   |-> n.end,
                              state |-> HEAP_NODE_FREE,
                              prev  |-> node,
                              next  |-> n.next]
           /\ vmap'[next]
           /\ List(nodes') = InsertAfter(List(nodes), node, next)
      ELSE /\ List(nodes') = List(nodes)
           /\ nodes'[node].start = n.start
           /\ nodes'[node].end = n.end
           /\ last'.ret = node + FRAME_SIZE

\* C17: when the chosen FREE node has extra = node_size - size >= 2 *
\* FRAME_SIZE and the header frame is obtained and mapped, the node is cut to
\* size bytes and a FREE node with header at node + size + FRAME_SIZE and
\* payload [node + size + 2 * FRAME_SIZE, old_end) follows it in the list;
\* otherwise the list is unchanged and the whole node is handed out.  (Of
\* the calls in which every payload page was mapped.)
C17_SplitRule ==
  [][Allocated /\ last'.k = 0 /\ FirstFit(PAGE_ALIGN(last'.arg)) # 0
       => SplitAsRuled(FirstFit(PAGE_ALIGN(last'.arg)), PAGE_ALIGN(last'.arg))]_vars

\* the pages that hold a frame of pmm
Held == {p \in Pages : vmap[p]}

\* the pages the list accounts for: the headers of the linked nodes and the
\* payload pages of the ALLOCATED ones
Accounted ==
  Linked(nodes) \cup
  UNION {PayloadPages(nodes[a]) :
           a \in {b \in Linked(nodes) : nodes[b].state = HEAP_NODE_ALLOCATED}}

\* C18: between heap operations every frame the heap has obtained from
\* pmm_alloc and not returned through pmm_free is mapped, as the header page
\* of a linked node or as a payload page of an ALLOCATED node.
C18_FramesConserved ==
  status = "ok" =>
    /\ NFrames - pool = Cardinality(Held)
    /\ Held \subseteq Accounted

\* C19: no heap operation calls pmm_free with the null frame, and none
\* returns a frame to pmm twice (a frame is unmapped when it is returned, so
\* a later operation cannot name it again before it is obtained anew).
C19_NoNullNoDoubleFree ==
  \A i \in 1..Len(freed) :
    /\ freed[i] # 0
    /\ \A j \in 1..Len(freed) : i # j => freed[i] # freed[j]

\* C22: for every request size, 0 included, the pointer heap_alloc or
\* heap_reserve returns is the start of a node whose payload is not empty
\* and holds the rounded request, and is not the header page of a node of
\* the list; no node of the list has start = end.
C22_PayloadNeverEmpty ==
  status = "ok" =>
    /\ \A a \in Linked(nodes) : nodes[a].start < nodes[a].end
    /\ (last.op \in {"heap_alloc", "heap_reserve"} /\ last.ret # 0) =>
         /\ last.ret = nodes[last.node].start
         /\ nodes[last.node].end - nodes[last.node].start >= PAGE_ALIGN(last.arg)
         /\ last.ret \notin Linked(nodes)

----------------------------------------------------------------------------
(* Properties of interrupt dispatch and routing *)

\* a sequence, last entry first
RECURSIVE Reverse(_)
Reverse(q) == IF q = <<>> THEN <<>> ELSE Append(Reverse(Tail(q)), Head(q))

\* the positions of the events ev in the trace of the last operation
EventsAt(ev) == {i \in 1..Len(trace) : trace[i].ev = ev}

\* the handler invocations of the last operation, in order
Calls == SelectSeq(trace, LAMBDA e : e.ev = "call")

\* the handlers registered on vector v and not unregistered since, oldest
\* registration first
RegisteredOn(v) == [i \in 1..Len(regs[v]) |-> hnodes[regs[v][i]].handler]

Dispatched == ilast.op = "intr_dispatch"

\* C7: one intr_dispatch of a vector invokes the handlers registered on it
\* once per registration, the most recently registered first, each with the
\* saved state of that interrupt.
C7_DispatchIsLifo ==
  (Dispatched /\ intr_handlers[ilast.intr] # 0) =>
    /\ [i \in 1..Len(Calls) |-> Calls[i].h] = Reverse(RegisteredOn(ilast.intr))
    /\ \A i \in 1..Len(Calls) : Calls[i].intr = ilast.intr

\* a dispatch that ran three registrations of which the oldest and the newest
\* differ
C7_Witness ==
  /\ Dispatched
  /\ Len(Calls) = 3
  /\ Calls[1].h # Calls[3].h
  /\ Len(regs[ilast.intr]) = 3

\* C8: intr_dispatch never acknowledges a vector of the fault range
\* (id <= FAULT31) nor the spurious vector; any other vector it acknowledges
\* exactly once, with that vector, before the first handler runs.
C8_AckPolicy ==
  Dispatched =>
    IF ilast.intr <= FAULT31 \/ ilast.intr = SPURIOUS
    THEN EventsAt("ic_ack") = {}
    ELSE /\ EventsAt("ic_ack") = {1}
         /\ trace[1].intr = ilast.intr
         /\ \A i \in EventsAt("call") : i > 1

\* a dispatch of a device vector that acknowledged and then ran two handlers
C8_Witness ==
  /\ Dispatched
  /\ ilast.intr > FAULT31 /\ ilast.intr # SPURIOUS
  /\ EventsAt("ic_ack") = {1}
  /\ Len(Calls) = 2

\* C9: intr_dispatch of a vector with an empty chain panics with that vector
\* and invokes no handler; with a non-empty chain it does not panic.
C9_EmptyChainPanics ==
  Dispatched =>
    IF intr_handlers[ilast.intr] = 0
    THEN /\ istatus = "panic"
         /\ Cardinality(EventsAt("panic")) = 1
         /\ \A i \in EventsAt("panic") : trace[i].intr = ilast.intr
         /\ EventsAt("call") = {}
    ELSE /\ istatus = "ok"
         /\ EventsAt("panic") = {}
         /\ EventsAt("call") # {}

\* a dispatch of a vector without handlers, while another vector has one,
\* that panicked
C9_Witness ==
  /\ Dispatched
  /\ istatus = "panic"
  /\ intr_handlers[ilast.intr] = 0
  /\ \E v \in Vectors : intr_handlers[v] # 0
  /\ EventsAt("panic") # {}

\* the controllers whose range [irq_base, irq_base + irqs) holds the line
Owners(irq) ==
  {i \in 1..Len(IoApics) :
     IoApics[i].irq_base <= irq /\ irq < IoApics[i].irq_base + IoApics[i].irqs}

\* the positions of the events ev in the trace tr
EventsIn(tr, ev) == {j \in 1..Len(tr) : tr[j].ev = ev}

\* the positions in tr at which the line was masked at controller i
MasksIn(tr, i, irq) ==
  {j \in EventsIn(tr, "ioapic_mask") :
     tr[j].apic = IoApics[i].id /\ tr[j].irq = irq}

\* what C11 promises of a call intr_unroute_irq(tuple, handler)
MaskedBeforeUnlinked(tuple) ==
  \A f \in EventsIn(trace', "free") : \A i \in Owners(tuple.irq) :
    \E j \in MasksIn(trace', i, tuple.irq) : j < f

\* C11: when intr_unroute_irq unlinks and frees the handler's node, it has
\* before that masked the line at every controller whose range holds it.
C11_MaskedBeforeUnlinked ==
  [][\A tuple \in Tuples, h \in Handlers :
       IntrUnrouteIrq(tuple, h) => MaskedBeforeUnlinked(tuple)]_vars

\* what C13 promises of a call intr_route_irq(tuple, handler) for which
\* malloc has a node: routed at the controller that owns the line, or refused
RoutedAsOwned(tuple, handler) ==
  LET intr == IrqVector(tuple.irq)
  IN  IF Owners(tuple.irq) # {}
      THEN /\ ilast'.ok
           /\ ChainFrom(hnodes', intr_handlers'[intr]) =
                <<handler>> \o ChainFrom(hnodes, intr_handlers[intr])
           /\ \E j \in EventsIn(trace', "ioapic_route") :
                /\ \E i \in Owners(tuple.irq) : trace'[j].apic = IoApics[i].id
                /\ trace'[j].irq = tuple.irq
                /\ trace'[j].intr = intr
      ELSE /\ ~ilast'.ok
           /\ intr_handlers' = intr_handlers /\ hnodes' = hnodes
           /\ EventsIn(trace', "ioapic_route") = {}

\* C13: intr_route_irq takes the controller whose range [irq_base, irq_base +
\* irqs) holds the line, its last line included: with a node to allocate it
\* returns true, pushes the handler on vector (irq mod IRQS) + IRQ0 and calls
\* ioapic_route on that controller; with no such controller it returns
\* false, changes no chain and programs no controller.
C13_RoutedByRange ==
  [][\A tuple \in Tuples, h \in Handlers :
       IntrRouteIrq(tuple, h, TRUE) /\ (\E n \in HNodeIds : hnodes[n] = FreeHNode)
         => RoutedAsOwned(tuple, h)]_vars

\* C14: intr_unroute_irq for a line that no controller owns does nothing:
\* it masks no controller and leaves every chain as it was, the chain of
\* vector (irq mod IRQS) + IRQ0 included when the handler is on it.
C14_UnownedLineIsNoOp ==
  [][\A tuple \in Tuples, h \in Handlers :
       IntrUnrouteIrq(tuple, h) /\ Owners(tuple.irq) = {}
         => /\ EventsIn(trace', "ioapic_mask") = {}
            /\ intr_handlers' = intr_handlers
            /\ hnodes' = hnodes]_vars

\* the nodes of the chain that starts at node, at most fuel of them
RECURSIVE NodesFrom(_, _, _)
NodesFrom(hn, node, fuel) ==
  IF node = 0 \/ fuel = 0 THEN {}
  ELSE {node} \cup NodesFrom(hn, hn[node].next, fuel - 1)

\* the sequence s without the first of its elements that equal h
RECURSIVE RemoveFirst(_, _)
RemoveFirst(s, h) ==
  IF s = <<>> THEN <<>>
  ELSE IF Head(s) = h THEN Tail(s)
       ELSE <<Head(s)>> \o RemoveFirst(Tail(s), h)

\* what C15 promises of a call intr_unroute_intr(intr, handler)
FirstMatchRemoved(intr, handler) ==
  /\ ChainFrom(hnodes', intr_handlers'[intr]) =
       RemoveFirst(ChainFrom(hnodes, intr_handlers[intr]), handler)
  /\ NodesFrom(hnodes', intr_handlers'[intr], MaxHNodes) \subseteq
       NodesFrom(hnodes, intr_handlers[intr], MaxHNodes)
  /\ \A v \in Vectors \ {intr} :
       /\ intr_handlers'[v] = intr_handlers[v]
       /\ \A n \in NodesFrom(hnodes, intr_handlers[v], MaxHNodes) :
            hnodes'[n] = hnodes[n]
  /\ (\A n \in NodesFrom(hnodes, intr_handlers[intr], MaxHNodes) :
        hnodes[n].handler # handler)
       => intr_handlers' = intr_handlers /\ hnodes' = hnodes

\* C15: intr_unroute_intr(V, H) removes from the chain of V exactly the first
\* node from the head that holds H, keeps the other nodes of V in their
\* order and the chains of all other vectors as they are; when H is not on
\* the chain of V nothing changes.
C15_FirstMatchRemoved ==
  [][\A intr \in Vectors, h \in Handlers :
       IntrUnrouteIntr(intr, h) => FirstMatchRemoved(intr, h)]_vars

\* an intr_unroute_intr that freed a node of a vector whose chain still holds
\* the handler, behind another one, while another vector has a chain too
C15_Witness ==
  /\ ilast.op = "intr_unroute_intr"
  /\ \E f \in EventsAt("free") :
       /\ Len(ChainFrom(hnodes, intr_handlers[trace[f].intr])) = 2
       /\ ChainFrom(hnodes, intr_handlers[trace[f].intr])[2] = trace[f].h
       /\ ChainFrom(hnodes, intr_handlers[trace[f].intr])[1] # trace[f].h

\* C10: whenever intr_route_irq programs the controller (ioapic_route), the
\* chain of the vector already holds the handler being registered, on every
\* path, the one where the node could not be allocated included.
C10_InstalledBeforeRouted ==
  \A i \in EventsAt("ioapic_route") :
    \E j \in 1..Len(trace[i].chain) : trace[i].chain[j] = trace[i].h

----------------------------------------------------------------------------
(* Properties of the routing table under parallel callers *)

\* the nodes that are linked on the chain of some vector
OnChains ==
  UNION {NodesFrom(hnodes, intr_handlers[v], MaxHNodes) : v \in Vectors}

IsPrefix(s, t) == Len(s) <= Len(t) /\ SubSeq(t, 1, Len(s)) = s

\* CPU c is between rw_rlock and rw_runlock of intr_dispatch
Reading(c) == pc[c] \in {"d_head", "d_call", "d_unlock"}

\* a dispatch on CPU c walks the chain its vector had when it took the lock:
\* the chain stays that one until it is done, the handlers called are a
\* prefix of it, all of it at the end, and none is read from a node that a
\* registration has not filled yet
SeesWholeChain(c) ==
  Reading(c) =>
    /\ ChainFrom(hnodes, intr_handlers[loc[c].intr]) = loc[c].snap
    /\ IsPrefix(loc[c].seen, loc[c].snap)
    /\ \A i \in 1..Len(loc[c].seen) : loc[c].seen[i] \in Handlers
    /\ pc[c] = "d_unlock" => loc[c].seen = loc[c].snap

\* a registration that has linked its node still finds it at the head of its
\* vector when it is about to return, and when no call is running every node
\* in use is on a chain and holds a handler
RegistrationsKept ==
  /\ \A c \in Cpus :
       pc[c] = "r_unlock" /\ loc[c].node # 0 =>
         /\ intr_handlers[loc[c].intr] = loc[c].node
         /\ hnodes[loc[c].node].handler = loc[c].h
  /\ (\A c \in Cpus : pc[c] = "idle") =>
       /\ InUse(hnodes) = OnChains
       /\ \A n \in InUse(hnodes) : hnodes[n].handler \in Handlers

\* C12: with registrations running in parallel on several CPUs and dispatches
\* on others, every dispatch sees for its vector the chain as it was before
\* or after each registration, never a node that is linked but not filled,
\* and every registration that returned is present on its chain once all
\* calls have finished.
C12_ParallelRegistrations ==
  (\A c \in Cpus : SeesWholeChain(c)) /\ RegistrationsKept

\* two registrations on distinct vectors wait for the lock while a dispatch
\* on a third vector has called the handlers of its chain
C12_Witness ==
  \E d \in Cpus, a \in Cpus, b \in Cpus :
    /\ pc[d] = "d_unlock" /\ loc[d].seen # <<>>
    /\ pc[a] = "r_lock" /\ pc[b] = "r_lock"
    /\ Cardinality({loc[a].intr, loc[b].intr, loc[d].intr}) = 3

\* CPU c is at the statements of a removal that unlink and free the node
Unlinking(c) == pc[c] \in {"u_unlink", "u_free"}

\* C20: no handler node is used after it is freed: with removals on one CPU
\* and dispatches of the same vector on others, a node is unlinked and freed
\* only while no dispatch is between rw_rlock and rw_runlock, no freed node
\* is linked on a chain, and the node a dispatch is about to read is never a
\* freed one.
C20_NoUseAfterFree ==
  /\ cstatus # "uaf"
  /\ OnChains \subseteq InUse(hnodes)
  /\ \A d \in Cpus : pc[d] = "d_call" => loc[d].node \in InUse(hnodes)
  /\ \A u \in Cpus : Unlinking(u) => \A d \in Cpus : ~Reading(d)

\* a removal has unlinked a node and is about to free it while a dispatch of
\* the same vector waits for the lock, and the chain still holds a node
C20_Witness ==
  \E u \in Cpus, d \in Cpus :
    /\ pc[u] = "u_free"
    /\ pc[d] = "d_lock"
    /\ loc[d].intr = loc[u].intr
    /\ intr_handlers[loc[u].intr] # 0

\* CPU a was interrupted while it held the heap spinlock and waits in
\* intr_dispatch for the read lock; CPU b holds the write lock and waits in
\* malloc for the heap spinlock: neither ever goes on
LockCycle(a, b) ==
  /\ heap_lock = a
  /\ Top(a) = "d_rlock"
  /\ rw.writer = b
  /\ Top(b) = "h_lock"

\* C21: with CPUs that call heap_alloc and heap_free with interrupts enabled,
\* register handlers (the node comes from the heap, under the write lock,
\* interrupts masked) and take interrupts whose handlers return, no state is
\* reached in which a CPU interrupted while holding the heap spinlock waits
\* in dispatch for the read lock while the holder of the write lock waits
\* for the heap spinlock.
C21_NoLockCycle ==
  \A a \in Cpus, b \in Cpus : ~LockCycle(a, b)

----------------------------------------------------------------------------
(* The specifications: the heap and its callers; the routing table and its *)
(* callers.                                                                *)

Init == HeapInit /\ IntrInit /\ CpuInit /\ LockInit

Next ==
  \/ \E size \in ReqSizes, env \in Envs :
        HeapAlloc(size, env) /\ UNCHANGED <<intrvars, cpuvars, lockvars>>
  \/ \E size \in ReqSizes, env \in Envs :
        HeapReserve(size, env) /\ UNCHANGED <<intrvars, cpuvars, lockvars>>
  \/ \E ptr \in owned : HeapFree(ptr) /\ UNCHANGED <<intrvars, cpuvars, lockvars>>

Spec == Init /\ [][Next]_vars

NextIntr ==
  \/ \E intr \in Vectors : IntrDispatch(intr) /\ UNCHANGED <<heapvars, cpuvars, lockvars>>
  \/ \E intr \in Vectors, h \in Handlers, ok \in BOOLEAN :
        IntrRouteIntr(intr, h, ok) /\ UNCHANGED <<heapvars, cpuvars, lockvars>>
  \/ \E intr \in Vectors, h \in Handlers :
        IntrUnrouteIntr(intr, h) /\ UNCHANGED <<heapvars, cpuvars, lockvars>>
  \/ \E tuple \in Tuples, h \in Handlers, ok \in BOOLEAN :
        IntrRouteIrq(tuple, h, ok) /\ UNCHANGED <<heapvars, cpuvars, lockvars>>
  \/ \E tuple \in Tuples, h \in Handlers :
        IntrUnrouteIrq(tuple, h) /\ UNCHANGED <<heapvars, cpuvars, lockvars>>

SpecIntr == Init /\ [][NextIntr]_vars

\* the routing table under parallel callers
cpuframe == <<heapvars, trace, istatus, ilast, regs, lockvars>>

NextCpu ==
  \/ \E c \in Registrars, intr \in CpuVectors, h \in CpuHandlers :
       CpuRouteIntr(c, intr, h) /\ UNCHANGED cpuframe
  \/ \E c \in Cpus : CpuRouteLock(c) /\ UNCHANGED cpuframe
  \/ \E c \in Cpus : CpuRouteMalloc(c) /\ UNCHANGED cpuframe
  \/ \E c \in Cpus : CpuRouteFill(c) /\ UNCHANGED cpuframe
  \/ \E c \in Cpus : CpuRouteNext(c) /\ UNCHANGED cpuframe
  \/ \E c \in Cpus : CpuRouteHead(c) /\ UNCHANGED cpuframe
  \/ \E c \in Cpus : CpuRouteUnlock(c) /\ UNCHANGED cpuframe
  \/ \E c \in Registrars, intr \in CpuVectors, h \in CpuHandlers :
       CpuUnrouteIntr(c, intr, h) /\ UNCHANGED cpuframe
  \/ \E c \in Registrars, tuple \in Tuples, h \in CpuHandlers :
       CpuUnrouteIrq(c, tuple, h) /\ UNCHANGED cpuframe
  \/ \E c \in Cpus : CpuUnrouteLock(c) /\ UNCHANGED cpuframe
  \/ \E c \in Cpus : CpuUnrouteMask(c) /\ UNCHANGED cpuframe
  \/ \E c \in Cpus : CpuUnrouteFirst(c) /\ UNCHANGED cpuframe
  \/ \E c \in Cpus : CpuUnrouteTest(c) /\ UNCHANGED cpuframe
  \/ \E c \in Cpus : CpuUnrouteUnlink(c) /\ UNCHANGED cpuframe
  \/ \E c \in Cpus : CpuUnrouteFree(c) /\ UNCHANGED cpuframe
  \/ \E c \in Cpus : CpuUnrouteUnlock(c) /\ UNCHANGED cpuframe
  \/ \E c \in Cpus, id \in CpuVectors :
       CpuDispatch(c, id) /\ UNCHANGED cpuframe
  \/ \E c \in Cpus : CpuDispatchLock(c) /\ UNCHANGED cpuframe
  \/ \E c \in Cpus : CpuDispatchHead(c) /\ UNCHANGED cpuframe
  \/ \E c \in Cpus : CpuDispatchCall(c) /\ UNCHANGED cpuframe
  \/ \E c \in Cpus : CpuDispatchUnlock(c) /\ UNCHANGED cpuframe

SpecCpu == Init /\ [][NextCpu]_vars

\* the locks under parallel callers and interrupts
lockframe == <<heapvars, intrvars, pc, loc, cstatus>>

NextLock ==
  \/ \E c \in Cpus : LockHeapCall(c) /\ UNCHANGED lockframe
  \/ \E c \in Cpus : LockHeapLock(c) /\ UNCHANGED lockframe
  \/ \E c \in Cpus : LockHeapUnlock(c) /\ UNCHANGED lockframe
  \/ \E c \in Cpus : LockRouteCall(c) /\ UNCHANGED lockframe
  \/ \E c \in Cpus : LockRouteLock(c) /\ UNCHANGED lockframe
  \/ \E c \in Cpus, grow \in BOOLEAN :
       LockRouteMalloc(c, grow) /\ UNCHANGED lockframe
  \/ \E c \in Cpus : LockRouteUnlock(c) /\ UNCHANGED lockframe
  \/ \E c \in Cpus : LockInterrupt(c) /\ UNCHANGED lockframe
  \/ \E c \in Cpus : LockDispatchLock(c) /\ UNCHANGED lockframe
  \/ \E c \in Cpus : LockDispatchUnlock(c) /\ UNCHANGED lockframe

SpecLock == Init /\ [][NextLock]_vars


=============================================================================
